---------------------------- MODULE Spec2Model ----------------------------
(***************************************************************************)
(* A model of pifactory.c: the computation of 9 decimal digits of pi at a  *)
(* given offset with 32-bit integer arithmetic (Gosper's series, factored  *)
(* over prime powers), and the command line shell that prints the blocks.  *)
(*                                                                         *)
(* C's int is modelled with its width: every product, sum and difference   *)
(* is wrapped to 32 bits (what the two's complement build produces), and   *)
(* each function reports whether one of its operations left the int range. *)
(* The conversion (int)pow(x, y) of a value outside the int range has no   *)
(* defined result: the model draws it from ConvOutcomes.                   *)
(*                                                                         *)
(* An intermediate value that is used more than once is bound as           *)
(*   The({ e(x) : x \in {v} }),                                            *)
(* which evaluates v once and is the value of e(x) with x the value of v.  *)
(***************************************************************************)
EXTENDS Integers, Sequences, FiniteSets

The(S) == CHOOSE x \in S : TRUE

(***************************************************************************)
(* 32-bit signed arithmetic.                                               *)
(***************************************************************************)
INT_MAX == 2147483647

INT_MIN == -INT_MAX - 1

Abs(a) == IF a < 0 THEN -a ELSE a

\* a * b lies outside [INT_MIN, INT_MAX]
MulOverflows(a, b) ==
  IF a = 0 \/ b = 0 \/ a = 1 \/ b = 1 THEN FALSE
  ELSE IF a = INT_MIN \/ b = INT_MIN THEN TRUE
  ELSE IF (a > 0) = (b > 0) THEN Abs(a) > INT_MAX \div Abs(b)
  ELSE Abs(a) > (INT_MAX \div Abs(b))
                  + (IF INT_MAX % Abs(b) = Abs(b) - 1 THEN 1 ELSE 0)

AddOverflows(a, b) ==
  \/ a > 0 /\ b > 0 /\ a > INT_MAX - b
  \/ a < 0 /\ b < 0 /\ a < INT_MIN - b

SubOverflows(a, b) ==
  \/ b < 0 /\ a >= 0 /\ a > INT_MAX + b
  \/ b > 0 /\ a < 0 /\ a < INT_MIN + b

\* the low and high 16 bits of the two's complement representation
Lo16(a) == a % 65536

Hi16(a) == (a \div 65536) % 65536

\* for x, y in 0..65535: the low 16 bits of x * y, and x * y \div 65536
MulLow16(x, y) == (((x * (y \div 256)) % 256) * 256 + x * (y % 256)) % 65536

MulHigh16(x, y) ==
  ((x * (y \div 256)) \div 256)
    + ((((x * (y \div 256)) % 256) * 256 + x * (y % 256)) \div 65536)

FromHalves(h, l) == (IF h >= 32768 THEN h - 65536 ELSE h) * 65536 + l

\* a * b reduced to 32 bits, two's complement
MulWrap(a, b) ==
  The({ FromHalves((MulHigh16(al, bl) + MulLow16(ah, bl) + MulLow16(al, bh))
                      % 65536,
                   MulLow16(al, bl)) :
        al \in {Lo16(a)}, ah \in {Hi16(a)}, bl \in {Lo16(b)}, bh \in {Hi16(b)} })

Mul(a0, b0) ==
  The({ IF MulOverflows(a, b) THEN MulWrap(a, b) ELSE a * b :
        a \in {a0}, b \in {b0} })

Add(a0, b0) ==
  The({ IF a > 0 /\ b > 0 /\ a > INT_MAX - b
          THEN ((a + INT_MIN) + b) + INT_MIN
        ELSE IF a < 0 /\ b < 0 /\ a < INT_MIN - b
          THEN ((a - INT_MIN) + b) - INT_MIN
        ELSE a + b :
        a \in {a0}, b \in {b0} })

Sub(a0, b0) ==
  The({ IF b < 0 /\ a >= 0 /\ a > INT_MAX + b
          THEN ((a + INT_MIN) - b) + INT_MIN
        ELSE IF b > 0 /\ a < 0 /\ a < INT_MIN + b
          THEN ((a - INT_MIN) - b) - INT_MIN
        ELSE a - b :
        a \in {a0}, b \in {b0} })

\* C's / and % truncate toward zero (TLA+'s \div and % round down); d > 0
CDiv(x, d) ==
  IF x >= 0 \/ x % d = 0 THEN x \div d ELSE (x \div d) + 1

CMod(x, d) ==
  IF x >= 0 \/ x % d = 0 THEN x % d ELSE (x % d) - d

\* C's / and % for a divisor of either sign (d # 0, d # INT_MIN); a zero
\* divisor traps in C and has no value here
CQuot(x0, d0) ==
  The({ IF d > 0 THEN CDiv(x, d) ELSE -CDiv(x, -d) : x \in {x0}, d \in {d0} })

CRem(x0, d0) ==
  The({ IF d > 0 THEN CMod(x, d) ELSE CMod(x, -d) : x \in {x0}, d \in {d0} })

(***************************************************************************)
(* (int)pow(x, y) for an integer x >= 2: the exact power when it fits the  *)
(* int range, 0 for a negative y (the double lies in (0, 1)), and the      *)
(* outcome c of the undefined conversion when the power exceeds INT_MAX.   *)
(***************************************************************************)
RECURSIVE PowUp(_, _, _)
\* acc * x^y, or -1 as soon as the product exceeds INT_MAX
PowUp(x, y, acc0) ==
  The({ IF y = 0 THEN acc
        ELSE IF acc > INT_MAX \div x THEN -1
        ELSE PowUp(x, y - 1, acc * x) :
        acc \in {acc0} })

PowFits(x, y) == y < 0 \/ PowUp(x, y, 1) # -1

IntPow(x, y, c) ==
  IF y < 0 THEN 0
  ELSE The({ IF p = -1 THEN c ELSE p : p \in {PowUp(x, y, 1)} })

(***************************************************************************)
(* pow_mod: (a^b) mod m by repeated squaring.                              *)
(***************************************************************************)
\* one pass of the while loop on the registers r = [result, a, b, ovf]
PowModStep(r, m) ==
  [result |-> IF r.b % 2 = 1 THEN CRem(Mul(r.result, r.a), m) ELSE r.result,
   a      |-> CRem(Mul(r.a, r.a), m),
   b      |-> r.b \div 2,
   ovf    |-> \/ r.ovf
              \/ r.b % 2 = 1 /\ MulOverflows(r.result, r.a)
              \/ MulOverflows(r.a, r.a)]

RECURSIVE PowModLoop(_, _)
PowModLoop(r0, m) ==
  The({ IF r.b > 0 THEN PowModLoop(PowModStep(r, m), m) ELSE r : r \in {r0} })

\* the result, and whether a product left the int range
pow_mod(a, b, m) ==
  PowModLoop([result |-> 1, a |-> a, b |-> b, ovf |-> FALSE], m)

(***************************************************************************)
(* inv_mod: 11 rounds of the extended Euclidean algorithm, each of two     *)
(* division steps.                                                         *)
(***************************************************************************)
EuclidRounds == 11

\* b -= a * q; y -= x * q
EuclidReduce(q, a, b, x, y) ==
  The({ [b |-> Sub(b, aq), y |-> Sub(y, xq),
         ovf |-> \/ MulOverflows(a, q) \/ SubOverflows(b, aq)
                 \/ MulOverflows(x, q) \/ SubOverflows(y, xq)] :
        aq \in {Mul(a, q)}, xq \in {Mul(x, q)} })

\* q = (a == 0) ? 0 : b / a; b -= a * q; y -= x * q
EuclidHalf(a, b, x, y) ==
  The({ EuclidReduce(q, a, b, x, y) :
        q \in {IF a = 0 THEN 0 ELSE CQuot(b, a)} })

\* the second half of the loop body, h being the b and y of the first half
EuclidSecond(r, h) ==
  The({ [i |-> r.i + 1, a |-> g.b, b |-> h.b, x |-> g.y, y |-> h.y,
         ovf |-> r.ovf \/ h.ovf \/ g.ovf] :
        g \in {EuclidHalf(h.b, r.a, h.y, r.x)} })

\* one round of the loop body on the registers r = [i, a, b, x, y, ovf]
EuclidRound(r) ==
  The({ EuclidSecond(r, h) : h \in {EuclidHalf(r.a, r.b, r.x, r.y)} })

RECURSIVE EuclidLoop(_)
EuclidLoop(r0) ==
  The({ IF r.i < EuclidRounds THEN EuclidLoop(EuclidRound(r)) ELSE r :
        r \in {r0} })

\* inv_mod without the final y + m: the variant that returns y as it is
inv_mod_unadjusted(a, m) ==
  The({ [x   |-> IF r.b = 0 THEN r.x ELSE r.y,
         a   |-> r.a,
         b   |-> r.b,
         ovf |-> r.ovf \/ (a < 0 /\ AddOverflows(a, m))] :
        r \in {EuclidLoop([i |-> 0, a |-> IF a < 0 THEN Add(a, m) ELSE a,
                           b |-> m, x |-> 1, y |-> 0, ovf |-> FALSE])} })

\* the result x, with the registers the loop ended on
inv_mod(a, m) ==
  The({ [x   |-> IF r.b = 0 THEN r.x ELSE Add(r.y, m),
         a   |-> r.a,
         b   |-> r.b,
         ovf |-> r.ovf \/ (a < 0 /\ AddOverflows(a, m))
                       \/ (r.b # 0 /\ AddOverflows(r.y, m))] :
        r \in {EuclidLoop([i |-> 0, a |-> IF a < 0 THEN Add(a, m) ELSE a,
                           b |-> m, x |-> 1, y |-> 0, ovf |-> FALSE])} })

(***************************************************************************)
(* is_prime, next_prime: trial division by the 47 tabulated primes.        *)
(***************************************************************************)
SMALL_PRIMES ==
  <<  2,   3,   5,   7,  11,  13,  17,  19,  23,  29,
     31,  37,  41,  43,  47,  53,  59,  61,  67,  71,
     73,  79,  83,  89,  97, 101, 103, 107, 109, 113,
    127, 131, 137, 139, 149, 151, 157, 163, 167, 173,
    179, 181, 191, 193, 197, 199, 211 >>

is_prime(n) ==
  Cardinality({j \in 1..47 : CMod(n, SMALL_PRIMES[j]) # 0})
    + Cardinality({j \in 1..47 : n = SMALL_PRIMES[j]})
    = 47

RECURSIVE next_prime(_)
next_prime(n0) ==
  The({ IF is_prime(n) THEN n ELSE next_prime(n) : n \in {n0 + 1} })

(***************************************************************************)
(* factor_count: scans the power table pp (pp[i + 1] is prime_power[i])    *)
(* from index count - 1 down to 0, divides n by the first power that       *)
(* divides it and returns its index.  When no entry divides n the C        *)
(* function ends without a return statement and the value the caller reads *)
(* is undefined: it is whatever the build has left in the result register  *)
(* (the loop index, a quotient or remainder of the scan, n, a stale word)  *)
(* and can be any int.  The result is therefore a set: of one element when *)
(* the scan returns, and when it does not the set of the records           *)
(* [returned |-> FALSE, i |-> u, n |-> n] for every int u, which is        *)
(* written as a set of records so that membership in it can be decided     *)
(* without enumerating it.                                                 *)
(***************************************************************************)
\* what a build can leave as the value of a call that ends without
\* return: any int
UndefinedReturns == INT_MIN..INT_MAX

\* the scan in ascending order: the variant that stops at the first, not
\* the largest, tabulated power dividing n
FactorScanAscending(pp, i0, n) ==
  IF \A j \in 0..i0 : CRem(n, pp[j + 1]) # 0
  THEN [returned : {FALSE}, i : UndefinedReturns, n : {n}]
  ELSE {[returned |-> TRUE, i |-> j, n |-> CQuot(n, pp[j + 1])] :
          j \in {CHOOSE j \in 0..i0 :
                   /\ CRem(n, pp[j + 1]) = 0
                   /\ \A h \in 0..(j - 1) : CRem(n, pp[h + 1]) # 0}}

RECURSIVE FactorScan(_, _, _)
\* the loop from index i0 down: the possible [returned, i, n], i being the
\* value the caller reads and n what *n is left as
FactorScan(pp, i0, n) ==
  The({ IF i < 0
        THEN [returned : {FALSE}, i : UndefinedReturns, n : {n}]
        ELSE IF CRem(n, pp[i + 1]) = 0
             THEN {[returned |-> TRUE, i |-> i, n |-> CQuot(n, pp[i + 1])]}
             ELSE FactorScan(pp, i - 1, n) :
        i \in {i0} })

factor_count(pp, count, n0) ==
  The({ FactorScan(pp, count - 1, n) : n \in {n0} })

(***************************************************************************)
(* fixed_point_sum: adds n/d to the 18 digit fixed-point pair (hi, lo).    *)
(***************************************************************************)
\* lines 143-150: the carry, and the reduction of both words
SumCarry(hi, lo, ovf) ==
  [hi  |-> CRem(IF lo > 1000000000 THEN Add(hi, 1) ELSE hi, 1000000000),
   lo  |-> CRem(lo, 1000000000),
   ovf |-> ovf \/ (lo > 1000000000 /\ AddOverflows(hi, 1))]

\* lines 139-141: digits 10 to 18, from b = a % d * 31250
SumLow(b, d, hi, lo, ovf) ==
  The({ The({ SumCarry(hi, Add(lo1, CQuot(cd, d)),
                       \/ ovf
                       \/ MulOverflows(CRem(b, d), 32000)
                       \/ MulOverflows(CQuot(c, d), 31250)
                       \/ AddOverflows(lo, Mul(CQuot(c, d), 31250))
                       \/ MulOverflows(CRem(c, d), 31250)
                       \/ AddOverflows(lo1, CQuot(cd, d))) :
              lo1 \in {Add(lo, Mul(CQuot(c, d), 31250))},
              cd \in {Mul(CRem(c, d), 31250)} }) :
        c \in {Mul(CRem(b, d), 32000)} })

\* lines 133-136: digits 1 to 9, from a = n * 32000 + r
SumHigh(a, d, hi, lo, ovf) ==
  The({ The({ SumLow(b, d, Add(hi1, CQuot(b, d)), lo,
                     \/ ovf
                     \/ MulOverflows(CQuot(a, d), 31250)
                     \/ AddOverflows(hi, Mul(CQuot(a, d), 31250))
                     \/ MulOverflows(CRem(a, d), 31250)
                     \/ AddOverflows(hi1, CQuot(b, d))) :
              b \in {Mul(CRem(a, d), 31250)} }) :
        hi1 \in {Add(hi, Mul(CQuot(a, d), 31250))} })

\* lines 125-133: n, d and r after the rescaling of a large d
SumScaled(n, d, r, hi, lo, ovf) ==
  The({ SumHigh(a, d, hi, lo,
                ovf \/ MulOverflows(n, 32000) \/ AddOverflows(Mul(n, 32000), r)) :
        a \in {Add(Mul(n, 32000), r)} })

fixed_point_sum(n, d, hi, lo) ==
  IF d > 60000
  THEN The({ SumScaled(n1, d1, r, hi, lo, MulOverflows(CRem(n, 256), 125)) :
             n1 \in {CQuot(n, 256)}, d1 \in {CQuot(d, 256)},
             r \in {Mul(CRem(n, 256), 125)} })
  ELSE SumScaled(n, d, 0, hi, lo, FALSE)

(***************************************************************************)
(* pi_digits.  L is the record of its locals, pp and count are the globals *)
(* prime_power and prime_power_count, c is the outcome of an undefined     *)
(* conversion.                                                             *)
(***************************************************************************)
ROOT_50K == << 50000, 50000, 223, 36, 14, 8, 6, 4, 3, 3 >>

\* N = (start_digit + 19) * 238 / 269
SeriesLength(start_digit) == CQuot(Mul(Add(start_digit, 19), 238), 269)

\* the locals on entry; those declared inside the loops are not yet set
EnterPiDigits(start_digit) ==
  [start_digit |-> start_digit, sum |-> 0, sum_low |-> 0,
   N |-> SeriesLength(start_digit), prime |-> 2,
   exponent |-> 0, m |-> 0, decimal_shift |-> 0,
   subtotal |-> 0, numerator |-> 0, denominator |-> 0, k |-> 0]

\* the table build that writes an entry only to raise it: the same as
\* BuildPowers within a first call, whose primes grow, but a later call
\* then starts on what the call before it has left
BuildPowersRaised(prime, pp, c) ==
  [pp    |-> [j \in 1..10 |->
                IF prime <= ROOT_50K[j] /\ pp[j] < IntPow(prime, j - 1, c)
                THEN IntPow(prime, j - 1, c) ELSE pp[j]],
   count |-> Cardinality({j \in 1..10 : prime <= ROOT_50K[j]}),
   conv  |-> \E j \in 1..10 : prime <= ROOT_50K[j] /\ ~PowFits(prime, j - 1)]

\* lines 167-173: the powers of prime, entry i written when prime <= ROOT_50K[i]
BuildPowers(prime, pp, c) ==
  [pp    |-> [j \in 1..10 |->
                IF prime <= ROOT_50K[j] THEN IntPow(prime, j - 1, c) ELSE pp[j]],
   count |-> Cardinality({j \in 1..10 : prime <= ROOT_50K[j]}),
   conv  |-> \E j \in 1..10 : prime <= ROOT_50K[j] /\ ~PowFits(prime, j - 1)]

\* the start exponent without the final exponent--
StartExponentOver(pp, count, N) ==
  Cardinality({j \in 1..count : pp[j] <= Mul(3, N)})

\* lines 176-181: one less than the number of tabulated powers <= 3 * N
StartExponent(pp, count, N) ==
  -1 + Cardinality({j \in 1..count : pp[j] <= Mul(3, N)})

\* lines 182-209 for a prime other than 2, e being the start exponent
SetupOdd(L, e, c) ==
  The({ [skip |-> FALSE,
         L    |-> [L EXCEPT !.exponent = e, !.m = m,
                            !.decimal_shift = sh.result,
                            !.subtotal = 0, !.numerator = 1,
                            !.denominator = 1, !.k = 1],
         ovf  |-> MulOverflows(3, L.N) \/ sh.ovf,
         conv |-> ~PowFits(L.prime, e)] :
        m \in {IntPow(L.prime, e, c)},
        sh \in {pow_mod(10, L.start_digit, IntPow(L.prime, e, c))} })

\* lines 182-209 for prime 2, e0 being the start exponent and e what
\* exponent += N - 1 makes of it; skip is the continue taken when m is 0
SetupTwo(L, e0, e, c) ==
  The({ IF m = 0
        THEN [skip |-> TRUE,
              L    |-> [L EXCEPT !.prime = next_prime(L.prime)],
              ovf  |-> \/ MulOverflows(3, L.N)
                       \/ SubOverflows(L.N, 1)
                       \/ AddOverflows(e0, Sub(L.N, 1))
                       \/ SubOverflows(e, L.start_digit),
              conv |-> \/ ~PowFits(L.prime, e0)
                       \/ ~PowFits(L.prime, Sub(e, L.start_digit))]
        ELSE The({ [skip |-> FALSE,
                    L    |-> [L EXCEPT !.exponent = e, !.m = m,
                                       !.decimal_shift = sh.result,
                                       !.subtotal = 0, !.numerator = 1,
                                       !.denominator = 1, !.k = 1],
                    ovf  |-> \/ MulOverflows(3, L.N)
                             \/ SubOverflows(L.N, 1)
                             \/ AddOverflows(e0, Sub(L.N, 1))
                             \/ SubOverflows(e, L.start_digit)
                             \/ sh.ovf,
                    conv |-> \/ ~PowFits(L.prime, e0)
                             \/ ~PowFits(L.prime, Sub(e, L.start_digit))] :
                   sh \in {pow_mod(5, L.start_digit, m)} }) :
        m \in {IntPow(L.prime, Sub(e, L.start_digit), c)} })

(***************************************************************************)
(* Lines 163-209, the head of the loop over the primes: the power table,   *)
(* the modulus m, the decimal shift and the start of the series.           *)
(***************************************************************************)
SetupPrime(L, pp, c) ==
  The({ The({ The({ [pp |-> t.pp, count |-> t.count, skip |-> s.skip,
                     L |-> s.L, ovf |-> s.ovf, conv |-> t.conv \/ s.conv] :
                    s \in {IF L.prime = 2
                           THEN SetupTwo(L, e0, Add(e0, Sub(L.N, 1)), c)
                           ELSE SetupOdd(L, e0, c)} }) :
              e0 \in {StartExponent(t.pp, t.count, L.N)} }) :
        t \in {BuildPowers(L.prime, pp, c)} })

(***************************************************************************)
(* Lines 211-236, one pass of the series loop for the term k.              *)
(***************************************************************************)
\* lines 230-235, with the exponent e and the products num and den
SeriesSum(L, F, e, num, den, flags, c) ==
  The({ The({ The({ The({ [L   |-> [L EXCEPT !.exponent = e,
                                              !.numerator = num,
                                              !.denominator = den,
                                              !.subtotal =
                                                CRem(Add(L.subtotal, t), L.m),
                                              !.k = L.k + 1],
                           factors  |-> F,
                           inverse  |-> [a |-> den, m |-> L.m, x |-> inv.x,
                                         a_end |-> inv.a, b_end |-> inv.b],
                           products |-> [terms |-> flags.terms,
                                         numerator |-> flags.numerator,
                                         denominator |-> flags.denominator,
                                         t_pow |-> MulOverflows(ta, pw),
                                         t_numerator |-> MulOverflows(tb, num),
                                         t_inverse |-> MulOverflows(tc, inv.x),
                                         subtotal |->
                                           AddOverflows(L.subtotal, t),
                                         inv_mod |-> inv.ovf,
                                         other |-> flags.other],
                           conv     |-> ~PowFits(L.prime, e)] :
                          t \in {Mul(tc, inv.x)} }) :
                    tc \in {CRem(Mul(tb, num), L.m)} }) :
              tb \in {CRem(Mul(ta, pw), L.m)} }) :
        ta \in {CRem(Sub(Mul(50, L.k), 6), L.m)},
        pw \in {IntPow(L.prime, e, c)},
        inv \in {inv_mod(den, L.m)} })

\* lines 215-226, F being the four results of factor_count
SeriesProducts(L, F, c) ==
  The({ SeriesSum(L, F,
                  Sub(Sub(Add(Add(L.exponent, F[1].i), F[2].i), F[3].i),
                      F[4].i),
                  CRem(Mul(L.numerator, tn), L.m),
                  CRem(Mul(L.denominator, td), L.m),
                  [terms |-> \/ MulOverflows(CRem(F[1].n, L.m),
                                             CRem(F[2].n, L.m))
                             \/ MulOverflows(CRem(F[3].n, L.m),
                                             CRem(F[4].n, L.m)),
                   numerator |-> MulOverflows(L.numerator, tn),
                   denominator |-> MulOverflows(L.denominator, td),
                   other |-> \/ MulOverflows(50, L.k)
                             \/ SubOverflows(Mul(50, L.k), 6)
                             \/ \E j \in 1..4 : F[j].ovf],
                  c) :
        tn \in {CRem(Mul(CRem(F[1].n, L.m), CRem(F[2].n, L.m)), L.m)},
        td \in {CRem(Mul(CRem(F[3].n, L.m), CRem(F[4].n, L.m)), L.m)} })

\* factor_count(&t) for t = a * k - b, with what was passed and returned:
\* one record for each possible result of the call
StripFactor(pp, count, a, k, b) ==
  The({ IF [returned |-> FALSE, i |-> 0, n |-> t] \in fc
        THEN [t : {t}, i : UndefinedReturns, n : {t}, returned : {FALSE},
              ovf : {MulOverflows(a, k) \/ SubOverflows(Mul(a, k), b)}]
        ELSE {[t |-> t, i |-> f.i, n |-> f.n, returned |-> f.returned,
               ovf |-> MulOverflows(a, k) \/ SubOverflows(Mul(a, k), b)] :
                f \in fc} :
        t \in {Sub(Mul(a, k), b)},
        fc \in {factor_count(pp, count, Sub(Mul(a, k), b))} })

\* the possible outcomes of the loop body, one for each combination of
\* results of the four factor_count calls
SeriesStep(L, pp, count, c) ==
  {SeriesProducts(L, << f1, f2, f3, f4 >>, c) :
     f1 \in StripFactor(pp, count, 2, L.k, 0),
     f2 \in StripFactor(pp, count, 2, L.k, 1),
     f3 \in StripFactor(pp, count, 6, L.k, 4),
     f4 \in StripFactor(pp, count, 9, L.k, 3)}

(***************************************************************************)
(* Lines 237-241 and the loop increment of line 162: the subtotal is       *)
(* shifted, subtotal / m is added to the sum, and the next prime is taken. *)
(***************************************************************************)
FinishPrime(L) ==
  The({ The({ [L   |-> [L EXCEPT !.subtotal = sub, !.sum = s.hi,
                                 !.sum_low = s.lo,
                                 !.prime = next_prime(L.prime)],
               n   |-> sub,
               d   |-> L.m,
               ovf |-> MulOverflows(L.subtotal, L.decimal_shift) \/ s.ovf] :
              s \in {fixed_point_sum(sub, L.m, L.sum, L.sum_low)} }) :
        sub \in {CRem(Mul(L.subtotal, L.decimal_shift), L.m)} })

(***************************************************************************)
(* printf("%09d", v): the decimal digits of v, padded with zeros to nine    *)
(* characters, a minus sign counting as one of them.                       *)
(***************************************************************************)
DigitChars == << "0", "1", "2", "3", "4", "5", "6", "7", "8", "9" >>

RECURSIVE Decimal(_)
\* the decimal digits of v >= 0, most significant first
Decimal(v0) ==
  The({ IF v < 10 THEN << DigitChars[v + 1] >>
        ELSE Append(Decimal(v \div 10), DigitChars[(v % 10) + 1]) :
        v \in {v0} })

RECURSIVE ZeroPad(_, _)
ZeroPad(str0, width) ==
  The({ IF Len(str) >= width THEN str ELSE ZeroPad(<< "0" >> \o str, width) :
        str \in {str0} })

Format09(v) ==
  IF v >= 0 THEN ZeroPad(Decimal(v), 9)
  ELSE << "-" >> \o ZeroPad(Decimal(-v), 8)

(***************************************************************************)
(* pi_digits as a function of its argument and of the globals it is        *)
(* entered with: the loops of lines 162 and 211 run to their end.  The     *)
(* result is the set of the values the call can return.  A loop of at most *)
(* 2^n passes is run as two loops of at most 2^(n-1) passes, one after the *)
(* other, which keeps the evaluation shallow.                              *)
(***************************************************************************)
RECURSIVE Halvings(_)
\* the least h with 2^h >= n
Halvings(n) == IF n <= 1 THEN 0 ELSE 1 + Halvings((n + 1) \div 2)

RECURSIVE SeriesRun(_, _, _, _, _)
\* the locals after the loop over k has ended or made 2^n passes
SeriesRun(L0, pp, count, c, n) ==
  The({ IF ~(L.k <= L.N) THEN {L}
        ELSE IF n = 0 THEN {r.L : r \in SeriesStep(L, pp, count, c)}
        ELSE UNION {SeriesRun(K, pp, count, c, n - 1) :
                      K \in SeriesRun(L, pp, count, c, n - 1)} :
        L \in {L0} })

\* the locals the loop over k can end with: it makes at most N passes
SeriesLoop(L, pp, count, c) == SeriesRun(L, pp, count, c, Halvings(L.N))

\* one pass of the loop over the primes from the locals and table S
PrimeStep(S, c) ==
  The({ IF r.skip THEN {[L |-> r.L, pp |-> r.pp]}
        ELSE {[L |-> FinishPrime(K).L, pp |-> r.pp] :
                K \in SeriesLoop(r.L, r.pp, r.count, c)} :
        r \in {SetupPrime(S.L, S.pp, c)} })

RECURSIVE PrimeRun(_, _, _)
\* the locals and table after the loop over the primes has ended or made
\* 2^n passes
PrimeRun(S0, c, n) ==
  The({ IF ~(S.L.prime <= Mul(3, S.L.N)) THEN {S}
        ELSE IF n = 0 THEN PrimeStep(S, c)
        ELSE UNION {PrimeRun(T, c, n - 1) : T \in PrimeRun(S, c, n - 1)} :
        S \in {S0} })

\* the loop over the primes makes fewer than 3 * N passes
PrimeLoop(L, pp, c) ==
  {S.L.sum : S \in PrimeRun([L |-> L, pp |-> pp], c, Halvings(Mul(3, L.N)))}

pi_digits(start_digit, pp, c) == PrimeLoop(EnterPiDigits(start_digit), pp, c)

(***************************************************************************)
(* atoi: white space is skipped, then an optional sign and the decimal     *)
(* digits up to the first other character are read.  A value outside the   *)
(* int range is undefined: the result is then the value reduced to 32      *)
(* bits (the conversion of strtol's long to int), the end of the int range *)
(* (a library whose long is 32 bits wide), or, when the value exceeds the  *)
(* 64-bit long as well, the low 32 bits of the saturated long: -1 or 0.    *)
(* The result is the set of these values, of one element when the value    *)
(* is in the int range.  (The vertical tab, white space too, has no        *)
(* notation in a string here.)                                             *)
(***************************************************************************)
\* the vertical tab, character 11, which has no escape in a string
VerticalTab == ""

\* the characters of isspace()
WhiteSpace == {" ", "\t", "\n", VerticalTab, "\f", "\r"}

IsDigit(ch) == \E v \in 0..9 : DigitChars[v + 1] = ch

DigitValue(ch) == CHOOSE v \in 0..9 : DigitChars[v + 1] = ch

RECURSIVE SkipSpace(_, _)
\* the first position from j on that holds no white space
SkipSpace(str, j0) ==
  The({ IF j <= Len(str) /\ str[j] \in WhiteSpace THEN SkipSpace(str, j + 1)
        ELSE j :
        j \in {j0} })

RECURSIVE DigitsFrom(_, _)
\* the values of the digits from position j up to the first other character
DigitsFrom(str, j0) ==
  The({ IF j > Len(str) \/ ~IsDigit(str[j]) THEN << >>
        ELSE << DigitValue(str[j]) >> \o DigitsFrom(str, j + 1) :
        j \in {j0} })

RECURSIVE StripZeros(_)
StripZeros(ds0) ==
  The({ IF ds # << >> /\ Head(ds) = 0 THEN StripZeros(Tail(ds)) ELSE ds :
        ds \in {ds0} })

\* the digits of 2^31 - 1, 2^31, 2^63 - 1 and 2^63
IntMaxDigits == << 2, 1, 4, 7, 4, 8, 3, 6, 4, 7 >>

IntMinDigits == << 2, 1, 4, 7, 4, 8, 3, 6, 4, 8 >>

LongMaxDigits ==
  << 9, 2, 2, 3, 3, 7, 2, 0, 3, 6, 8, 5, 4, 7, 7, 5, 8, 0, 7 >>

LongMinDigits ==
  << 9, 2, 2, 3, 3, 7, 2, 0, 3, 6, 8, 5, 4, 7, 7, 5, 8, 0, 8 >>

\* the number written by ds (no leading zero) is above the one written by lim
Exceeds(ds, lim) ==
  \/ Len(ds) > Len(lim)
  \/ /\ Len(ds) = Len(lim)
     /\ \E j \in 1..Len(ds) :
          /\ ds[j] > lim[j]
          /\ \A h \in 1..(j - 1) : ds[h] = lim[h]

RECURSIVE AtoiFrom(_, _, _)
\* the number written by the digits ds from position j on, added to
\* 10^(the number of them) * acc, reduced to 32 bits
AtoiFrom(ds, j, acc0) ==
  The({ IF j > Len(ds) THEN acc
        ELSE AtoiFrom(ds, j + 1, Add(Mul(acc, 10), ds[j])) :
        acc \in {acc0} })

\* the results for the sign and the digits ds (no leading zero)
AtoiSigned(neg, ds) ==
  IF ~Exceeds(ds, IF neg THEN IntMinDigits ELSE IntMaxDigits)
  THEN {IF neg THEN Sub(0, AtoiFrom(ds, 1, 0)) ELSE AtoiFrom(ds, 1, 0)}
  ELSE {IF neg THEN Sub(0, AtoiFrom(ds, 1, 0)) ELSE AtoiFrom(ds, 1, 0),
        IF neg THEN INT_MIN ELSE INT_MAX}
         \cup (IF Exceeds(ds, IF neg THEN LongMinDigits ELSE LongMaxDigits)
               THEN {IF neg THEN 0 ELSE -1} ELSE {})

atoi(str) ==
  The({ AtoiSigned(j <= Len(str) /\ str[j] = "-",
                   StripZeros(DigitsFrom(str,
                     IF j <= Len(str) /\ str[j] \in {"-", "+"}
                     THEN j + 1 ELSE j))) :
        j \in {SkipSpace(str, 1)} })

(***************************************************************************)
(* The bounds of the model.  The command lines are: none, one argument     *)
(* start up to MaxStart, two arguments with start up to MaxRangeStart and  *)
(* end from MaxSpan - 2 to MaxSpan digits further (one block or two), and  *)
(* the single digits CancelStart and SkipStart.                            *)
(***************************************************************************)
MaxStart == 14

MaxRangeStart == 4

MaxSpan == 10

\* a digit for which the modulus of prime 2 is 1 (main calls pi_digits
\* with the digit less one)
CancelStart == 208

\* a digit for which the modulus of prime 2 is 0 and the prime is skipped
SkipStart == 217

\* the arguments after argv[0], as strings
CommandLines ==
  {<< >>}
    \cup {<< Decimal(s) >> : s \in (0..MaxStart) \cup {CancelStart, SkipStart}}
    \cup {<< Decimal(s), Decimal(s + d) >> :
            s \in 0..MaxRangeStart, d \in (MaxSpan - 2)..MaxSpan}

\* what the conversion of an out of range double to int can yield: the
\* "integer indefinite" value of x86, or the saturated value
ConvOutcomes == {INT_MIN, INT_MAX}

\* the fractions n/d, the starting words and the number of fractions of
\* the runs of fixed_point_sum on its own
Fractions ==
  { << 1, 1024 >>, << 1, 3 >>, << 59999, 60000 >>, << 8388607, 8388608 >> }

StartWords == { 0, 500000000, 999999999 }

MaxFractions == 3

RECURSIVE SeqsUpTo(_, _)
\* the sequences over S of length 1 to n
SeqsUpTo(S, n) ==
  IF n = 0 THEN {}
  ELSE {<< x >> : x \in S}
         \cup SeqsUpTo(S, n - 1)
         \cup {Append(q, x) : q \in SeqsUpTo(S, n - 1), x \in S}

Permutations(n) ==
  {p \in [1..n -> 1..n] : \A j, k \in 1..n : p[j] = p[k] => j = k}

(***************************************************************************)
(* The state: main's position, the command line, main's locals start, end  *)
(* and i, what it has printed (the pieces of text in order), the two       *)
(* globals, the locals of the running pi_digits call, the outcome the      *)
(* build gave an undefined conversion (0 before the first one), and what   *)
(* the last step did.  For the runs of fixed_point_sum on its own: the     *)
(* fractions still to add in two orders, and the (hi, lo) pair of each.    *)
(***************************************************************************)
VARIABLES pc, argv, start, end, i, out, prime_power, prime_power_count, L,
          conv, obs, fracs, acc

vars == << pc, argv, start, end, i, out, prime_power, prime_power_count, L,
           conv, obs, fracs, acc >>

sumvars == << fracs, acc >>

mainvars == << argv, start, end, i, out, prime_power, prime_power_count, L,
               conv >>

NoObs == [kind |-> "none"]

Convs == IF conv = 0 THEN ConvOutcomes ELSE {conv}

\* the program before main runs: the globals are zero
Idle ==
  /\ start = 0
  /\ end = 0
  /\ i = 0
  /\ out = << >>
  /\ prime_power = [j \in 1..10 |-> 0]
  /\ prime_power_count = 0
  /\ L = EnterPiDigits(0)
  /\ conv = 0
  /\ obs = NoObs

Init ==
  /\ pc = "main"
  /\ argv \in CommandLines
  /\ Idle
  /\ fracs = << << >>, << >> >>
  /\ acc = << [hi |-> 0, lo |-> 0], [hi |-> 0, lo |-> 0] >>

\* lines 248-252: without an argument the help is printed
MainUsage ==
  /\ pc = "main"
  /\ Len(argv) + 1 < 2
  /\ out' = << "This program computes digits of pi.\n",
               "Usage: pifactory <START_DIGIT> [END_DIGIT]\n" >>
  /\ pc' = "exit"
  /\ obs' = NoObs
  /\ UNCHANGED << argv, start, end, i, prime_power, prime_power_count, L,
                  conv, sumvars >>

\* lines 255-269: the arguments are read, the prefix is printed for digit
\* 0, and the loop starts
MainStart ==
  /\ pc = "main"
  /\ ~(Len(argv) + 1 < 2)
  /\ \E s \in atoi(argv[1]) :
        /\ start' = IF s = 0 THEN s + 1 ELSE s
        /\ end' \in (IF Len(argv) + 1 >= 3 THEN atoi(argv[2]) ELSE {s})
        /\ out' = IF s = 0 THEN << "3", "." >> ELSE << >>
        /\ i' = Sub(start', 1)
  /\ pc' = "for_i"
  /\ obs' = NoObs
  /\ UNCHANGED << argv, prime_power, prime_power_count, L, conv, sumvars >>

\* lines 269-270, 154-162: the call pi_digits(i)
MainCall ==
  /\ pc = "for_i"
  /\ i < end
  /\ L' = EnterPiDigits(i)
  /\ pc' = "for_prime"
  /\ obs' = [kind |-> "call", index |-> i,
             ovf |-> \/ AddOverflows(i, 19)
                     \/ MulOverflows(Add(i, 19), 238)]
  /\ UNCHANGED << argv, start, end, i, out, prime_power, prime_power_count,
                  conv, sumvars >>

\* lines 269, 272: the loop ends and the line is closed
MainExit ==
  /\ pc = "for_i"
  /\ ~(i < end)
  /\ out' = Append(out, "\n")
  /\ pc' = "exit"
  /\ obs' = NoObs
  /\ UNCHANGED << argv, start, end, i, prime_power, prime_power_count, L,
                  conv, sumvars >>

\* lines 162-209: the next prime is set up
PrimeSetup ==
  /\ pc = "for_prime"
  /\ L.prime <= Mul(3, L.N)
  /\ \E c \in Convs : \E r \in {SetupPrime(L, prime_power, c)} :
        /\ ~r.skip
        /\ L' = r.L
        /\ prime_power' = r.pp
        /\ prime_power_count' = r.count
        /\ conv' = IF r.conv THEN c ELSE conv
        /\ obs' = [kind |-> "setup", prime |-> L.prime, m |-> r.L.m,
                   N |-> L.N, ovf |-> r.ovf, conv |-> r.conv]
  /\ pc' = "for_k"
  /\ UNCHANGED << argv, start, end, i, out, sumvars >>

\* lines 162-194: prime 2 is skipped when its modulus is 0
PrimeSkip ==
  /\ pc = "for_prime"
  /\ L.prime <= Mul(3, L.N)
  /\ \E c \in Convs : \E r \in {SetupPrime(L, prime_power, c)} :
        /\ r.skip
        /\ L' = r.L
        /\ prime_power' = r.pp
        /\ prime_power_count' = r.count
        /\ conv' = IF r.conv THEN c ELSE conv
        /\ obs' = [kind |-> "skip", prime |-> L.prime,
                   ovf |-> r.ovf, conv |-> r.conv]
  /\ UNCHANGED << pc, argv, start, end, i, out, sumvars >>

\* lines 211-236: one term of the series
SeriesTerm ==
  /\ pc = "for_k"
  /\ L.k <= L.N
  /\ \E c \in Convs :
       \E r \in SeriesStep(L, prime_power, prime_power_count, c) :
          /\ L' = r.L
          /\ conv' = IF r.conv THEN c ELSE conv
          /\ obs' = [kind |-> "term", prime |-> L.prime, k |-> L.k,
                     m |-> L.m, N |-> L.N,
                     factors |-> r.factors, inverse |-> r.inverse,
                     products |-> r.products, conv |-> r.conv,
                     ovf |-> \E f \in DOMAIN r.products : r.products[f]]
  /\ UNCHANGED << pc, argv, start, end, i, out, prime_power,
                  prime_power_count, sumvars >>

\* lines 237-241, 162: the prime's fraction is added to the sum
PrimeDone ==
  /\ pc = "for_k"
  /\ ~(L.k <= L.N)
  /\ \E r \in {FinishPrime(L)} :
        /\ L' = r.L
        /\ obs' = [kind |-> "sum", prime |-> L.prime, n |-> r.n, d |-> r.d,
                   hi |-> L.sum, lo |-> L.sum_low, ovf |-> r.ovf]
  /\ pc' = "for_prime"
  /\ UNCHANGED << argv, start, end, i, out, prime_power, prime_power_count,
                  conv, sumvars >>

\* lines 162, 243: no prime is left, pi_digits returns sum
PiReturn ==
  /\ pc = "for_prime"
  /\ ~(L.prime <= Mul(3, L.N))
  /\ pc' = "print"
  /\ obs' = [kind |-> "return", index |-> L.start_digit, value |-> L.sum]
  /\ UNCHANGED << argv, start, end, i, out, prime_power, prime_power_count,
                  L, conv, sumvars >>

\* the loop stepping by 10: the variant that leaves a digit out between
\* two blocks
MainPrintTen ==
  /\ pc = "print"
  /\ out' = out \o Format09(L.sum)
  /\ i' = Add(i, 10)
  /\ pc' = "for_i"
  /\ obs' = NoObs
  /\ UNCHANGED << argv, start, end, prime_power, prime_power_count, L, conv,
                  sumvars >>

\* lines 269-270: the block is printed and the loop steps by 9
MainPrint ==
  /\ pc = "print"
  /\ out' = out \o Format09(L.sum)
  /\ i' = Add(i, 9)
  /\ pc' = "for_i"
  /\ obs' = NoObs
  /\ UNCHANGED << argv, start, end, prime_power, prime_power_count, L, conv,
                  sumvars >>

Next ==
  \/ MainUsage
  \/ MainStart
  \/ MainCall
  \/ MainExit
  \/ PrimeSetup
  \/ PrimeSkip
  \/ SeriesTerm
  \/ PrimeDone
  \/ PiReturn
  \/ MainPrint

Spec == Init /\ [][Next]_vars

(***************************************************************************)
(* fixed_point_sum on its own: a sequence of fractions is added to a pair  *)
(* of words in two orders, the second a permutation of the first.          *)
(***************************************************************************)
InitSum ==
  /\ pc = "sum"
  /\ argv = << >>
  /\ Idle
  /\ \E fs \in SeqsUpTo(Fractions, MaxFractions) :
       \E p \in Permutations(Len(fs)) :
          fracs = << fs, [j \in 1..Len(fs) |-> fs[p[j]]] >>
  /\ \E hi \in StartWords, lo \in StartWords :
          acc = << [hi |-> hi, lo |-> lo], [hi |-> hi, lo |-> lo] >>

\* fixed_point_sum(n, d, &hi, &lo) for the next fraction of order w
SumOrder(w) ==
  /\ pc = "sum"
  /\ fracs[w] # << >>
  /\ \E r \in {fixed_point_sum(Head(fracs[w])[1], Head(fracs[w])[2],
                               acc[w].hi, acc[w].lo)} :
        /\ acc' = [acc EXCEPT ![w] = [hi |-> r.hi, lo |-> r.lo]]
        /\ obs' = [kind |-> "add", order |-> w,
                   n |-> Head(fracs[w])[1], d |-> Head(fracs[w])[2],
                   hi |-> acc[w].hi, lo |-> acc[w].lo,
                   hi_out |-> r.hi, lo_out |-> r.lo, ovf |-> r.ovf]
  /\ fracs' = [fracs EXCEPT ![w] = Tail(fracs[w])]
  /\ UNCHANGED << pc, mainvars >>

SumNext == \E w \in {1, 2} : SumOrder(w)

NextSum == SumNext

SpecSum == InitSum /\ [][NextSum]_vars

(***************************************************************************)
(* What the properties are stated against.                                 *)
(***************************************************************************)
\* the first decimals of pi after the point
PiDecimals ==
 << 1, 4, 1, 5, 9, 2, 6, 5, 3, 5, 8, 9, 7, 9, 3, 2, 3, 8, 4, 6,
    2, 6, 4, 3, 3, 8, 3, 2, 7, 9, 5, 0, 2, 8, 8, 4, 1, 9, 7, 1,
    6, 9, 3, 9, 9, 3, 7, 5, 1, 0, 5, 8, 2, 0, 9, 7, 4, 9, 4, 4,
    5, 9, 2, 3, 0, 7, 8, 1, 6, 4, 0, 6, 2, 8, 6, 2, 0, 8, 9, 9,
    8, 6, 2, 8, 0, 3, 4, 8, 2, 5, 3, 4, 2, 1, 1, 7, 0, 6, 7, 9,
    8, 2, 1, 4, 8, 0, 8, 6, 5, 1, 3, 2, 8, 2, 3, 0, 6, 6, 4, 7,
    0, 9, 3, 8, 4, 4, 6, 0, 9, 5, 5, 0, 5, 8, 2, 2, 3, 1, 7, 2,
    5, 3, 5, 9, 4, 0, 8, 1, 2, 8, 4, 8, 1, 1, 1, 7, 4, 5, 0, 2,
    8, 4, 1, 0, 2, 7, 0, 1, 9, 3, 8, 5, 2, 1, 1, 0, 5, 5, 5, 9,
    6, 4, 4, 6, 2, 2, 9, 4, 8, 9, 5, 4, 9, 3, 0, 3, 8, 1, 9, 6,
    4, 4, 2, 8, 8, 1, 0, 9, 7, 5, 6, 6, 5, 9, 3, 3, 4, 4, 6, 1,
    2, 8, 4, 7, 5, 6, 4, 8, 2, 3, 3, 7, 8, 6, 7, 8, 3, 1, 6, 5 >>

RECURSIVE PiValue(_, _)
\* the number written by the decimals from + 1 .. from + n of pi
PiValue(from, n) ==
  IF n = 0 THEN 0 ELSE PiValue(from, n - 1) * 10 + PiDecimals[from + n]

\* the 9 decimals of pi that follow the first k
PiBlock(k) == PiValue(k, 9)

\* the conversions so far, if any, gave INT_MIN, as an x86 build does
NoSaturation == conv \in {0, INT_MIN}

\* m is a power of p
IsPowerOf(m, p) == \E e \in 0..30 : PowUp(p, e, 1) = m

RECURSIVE MulMod(_, _, _)
\* (a * b) mod m for 0 <= a < m and b >= 0, without a wide product
MulMod(a, b, m) ==
  IF b = 0 THEN 0
  ELSE The({ (h + h + (b % 2) * a) % m : h \in {MulMod(a, b \div 2, m)} })

RECURSIVE Expand(_, _, _, _)
\* n decimals of rem / d by long division: their value and the remainder
Expand(rem, d, n, value) ==
  IF n = 0 THEN [value |-> value, rem |-> rem]
  ELSE Expand((rem * 10) % d, d, n - 1, value * 10 + (rem * 10) \div d)

\* decimals 1 to 9 and 10 to 18 of n / d
HighDigits(n, d) == Expand(n, d, 9, 0).value

LowDigits(n, d) == Expand(Expand(n, d, 9, 0).rem, d, 9, 0).value

(***************************************************************************)
(* C1.                                                                     *)
(***************************************************************************)
\* C1 as stated: pi_digits takes a 1-based index.  For every index i >= 1
\* pi_digits(i) returns the 9 decimals of pi that begin with the i-th, so
\* pi_digits(1) = 141592653, whatever an out of range conversion gives.
C1_OneBasedBlock ==
  obs.kind = "return" /\ obs.index >= 1
    => obs.value = PiBlock(obs.index - 1)

(***************************************************************************)
(* C2.                                                                     *)
(***************************************************************************)
\* C2 as stated: no operation of pi_digits or its helpers leaves the int
\* range, no product before its % and no conversion of a power to int
C2_NoOverflow ==
  /\ obs.kind \in {"call", "setup", "skip", "term", "sum"} => ~obs.ovf
  /\ obs.kind \in {"setup", "skip", "term"} => ~obs.conv

(***************************************************************************)
(* C3.                                                                     *)
(***************************************************************************)
\* C3 (as amended): in every call of pow_mod and inv_mod the modulus m is
\* a power of the current prime; for an odd prime m <= 3 * N <= 46340; for
\* prime 2 m is a power of two up to 2^21 = 2097152, above 46340.
C3_ModulusBound ==
  obs.kind \in {"setup", "term"} =>
    /\ IsPowerOf(obs.m, obs.prime)
    /\ obs.prime # 2 => obs.m <= 3 * obs.N /\ obs.m <= 46340
    /\ obs.prime = 2 => obs.m <= 2097152

\* C3 witness: inv_mod is called for prime 2 with m = 2^21
C3_LargestPowerOfTwo ==
  obs.kind = "term" /\ obs.prime = 2 /\ obs.m = 2097152

\* C3 as stated: for every prime, 2 included, m is a power of the prime
\* and m <= 46340
C3_BelowRoot ==
  obs.kind \in {"setup", "term"} =>
    IsPowerOf(obs.m, obs.prime) /\ obs.m <= 46340

(***************************************************************************)
(* C4.                                                                     *)
(***************************************************************************)
\* the loop of inv_mod ended with a == 0 or b == 0
Converged == obs.inverse.a_end = 0 \/ obs.inverse.b_end = 0

\* 0 <= x < m and (denominator * x) mod m == 1
IsInverse ==
  /\ 0 <= obs.inverse.x
  /\ obs.inverse.x < obs.inverse.m
  /\ MulMod(obs.inverse.a % obs.inverse.m, obs.inverse.x, obs.inverse.m) = 1

\* C4 (as amended): every inv_mod(denominator, m) of the series loop has
\* converged after its 11 rounds; for m > 1 the result x has 0 <= x < m
\* and (denominator * x) mod m == 1; for m = 1 (prime 2 when its exponent
\* is cancelled) the result is 1, which is not below m.
C4_InverseAboveOne ==
  obs.kind = "term" =>
    /\ Converged
    /\ obs.inverse.m > 1 => IsInverse
    /\ obs.inverse.m = 1 => obs.inverse.x = 1

\* C4 witness: an inverse modulo 2^20 that took the y + m exit
C4_InverseModuloPowerOfTwo ==
  /\ obs.kind = "term"
  /\ obs.inverse.m = 1048576
  /\ obs.inverse.b_end # 0
  /\ obs.inverse.x > 1

\* C4 as stated: every inv_mod call, for every prime, has converged and
\* returns x with 0 <= x < m and (denominator * x) mod m == 1
C4_InverseAlways == obs.kind = "term" => Converged /\ IsInverse

(***************************************************************************)
(* C5, under SpecSum.                                                      *)
(***************************************************************************)
\* C5 as stated: from the same (hi, lo), a sequence of fractions and a
\* permutation of it leave the same (hi, lo)
C5_OrderIndependent ==
  pc = "sum" /\ fracs[1] = << >> /\ fracs[2] = << >> => acc[1] = acc[2]

(***************************************************************************)
(* C6.                                                                     *)
(***************************************************************************)
\* C6: a call of pi_digits entered with the globals an earlier call has
\* left (every block of a run after the first) returns what the call
\* returns from the zeroed globals of a fresh program
C6_SameAsFromFreshGlobals ==
  obs.kind = "return" /\ i > start - 1 =>
    \A c \in Convs :
       pi_digits(obs.index, [j \in 1..10 |-> 0], c) = {obs.value}

\* C6 witness: pi_digits(12) has returned in a run that called
\* pi_digits(3) before it, on a build whose conversions saturate
C6_SecondCallReturned ==
  /\ obs.kind = "return"
  /\ obs.index = 12
  /\ i = start - 1 + 9
  /\ conv = INT_MAX

(***************************************************************************)
(* C7.                                                                     *)
(***************************************************************************)
\* C7: at every factor_count(&t) of the series loop the table is not
\* empty and starts with 1, the scan returns, the index returned is the
\* exponent of the prime in t (t = residue * prime^index), and the residue
\* is not divisible by the prime
C7_ExactExponent ==
  obs.kind = "term" =>
    /\ prime_power_count >= 1
    /\ prime_power[1] = 1
    /\ \A j \in 1..4 :
         /\ obs.factors[j].returned
         /\ obs.factors[j].t
              = obs.factors[j].n * PowUp(obs.prime, obs.factors[j].i, 1)
         /\ obs.factors[j].n % obs.prime # 0

\* C7 witness: a term from which the cube of the prime or more was removed
C7_CubeRemoved ==
  obs.kind = "term" /\ \E j \in 1..4 : obs.factors[j].i >= 3

(***************************************************************************)
(* C8.                                                                     *)
(***************************************************************************)
\* the characters of the decimals from .. to of pi
PiText(from, to) ==
  [j \in 1..(to - from + 1) |-> DigitChars[PiDecimals[from + j - 1] + 1]]

\* the start the command line asks for: a number in the int range
ArgStart == The(atoi(argv[1]))

\* the prefix main prints for the command line
Prefix == IF ArgStart = 0 THEN << "3", "." >> ELSE << >>

\* the number of blocks for the digits start .. end
Blocks == IF end < start THEN 0 ELSE (end - start) \div 9 + 1

\* C8: "3." is printed exactly when the requested start is 0, and start
\* then counts as 1; pi_digits is called for start - 1, start + 8, ... in
\* this order, each call after the blocks before it are printed; at the
\* end the output is the prefix, one block of 9 characters for each 9
\* digits from start until end is covered, and the newline; the blocks are
\* the decimals of pi from start on (where no conversion saturated), and
\* for the arguments 0 9 the output is 3.141592653
C8_PrefixAndBlocks ==
  /\ obs.kind = "call" =>
       /\ start = (IF ArgStart = 0 THEN 1 ELSE ArgStart)
       /\ (obs.index - (start - 1)) % 9 = 0
       /\ obs.index < end
       /\ Len(out) = Len(Prefix) + obs.index - (start - 1)
  /\ pc = "exit" /\ argv # << >> =>
       /\ Len(out) = Len(Prefix) + 9 * Blocks + 1
       /\ SubSeq(out, 1, Len(Prefix)) = Prefix
       /\ out[Len(out)] = "\n"
       /\ start + 9 * Blocks - 1 >= end
       /\ NoSaturation =>
            SubSeq(out, Len(Prefix) + 1, Len(out) - 1)
              = PiText(start, start + 9 * Blocks - 1)
       /\ argv = << << "0" >>, << "9" >> >> =>
            out = << "3", ".", "1", "4", "1", "5", "9", "2", "6", "5", "3",
                     "\n" >>

\* C8 witness: the run for the arguments 0 9 has ended
C8_FirstNine ==
  /\ pc = "exit"
  /\ argv = << << "0" >>, << "9" >> >>
  /\ out = << "3", ".", "1", "4", "1", "5", "9", "2", "6", "5", "3", "\n" >>

(***************************************************************************)
(* C9, under SpecSum.                                                      *)
(***************************************************************************)
\* C9 as stated: lo' = (lo + dl) mod 10^9 and hi' = (hi + dh + carry) mod
\* 10^9 with carry = 1 exactly when lo + dl >= 10^9, both in [0, 10^9)
C9_CarryFromLow ==
  obs.kind = "add" =>
    /\ obs.lo_out = (obs.lo + LowDigits(obs.n, obs.d)) % 1000000000
    /\ obs.hi_out
         = (obs.hi + HighDigits(obs.n, obs.d)
              + (IF obs.lo + LowDigits(obs.n, obs.d) >= 1000000000
                 THEN 1 ELSE 0)) % 1000000000

(***************************************************************************)
(* C10.                                                                    *)
(***************************************************************************)
\* C10 as stated: every fixed_point_sum(subtotal, m, ...) of pi_digits has
\* 0 <= subtotal < m, and m <= 60000 or m a power of two up to 2^23
C10_SumPrecondition ==
  obs.kind = "sum" =>
    /\ 0 <= obs.n
    /\ obs.n < obs.d
    /\ obs.d <= 60000 \/ (IsPowerOf(obs.d, 2) /\ obs.d <= 8388608)

=============================================================================
